---------------------------- MODULE Spec2Model ----------------------------
(***************************************************************************)
(* A model of handoff.py: the conversation compaction pipeline.            *)
(*                                                                         *)
(* Strings are sequences of atoms.  An atom [c, n] is either a literal     *)
(* (c names the literal, n is its length in characters) or a run of n      *)
(* ordinary characters (c = "x").  len(), slicing, strip(), split('\n'),   *)
(* '\n'.join() and the regular expressions of NOISE_PATTERNS are computed  *)
(* on that representation.                                                 *)
(*                                                                         *)
(* Glyph literals are named in ASCII:                                      *)
(*   "star" = U+2736, "hook" = U+23BF, "box" = U+2610, "xbox" = U+2612.    *)
(***************************************************************************)
EXTENDS Integers, Sequences, FiniteSets, TLC

(***************************************************************************)
(* Bounds of the model.                                                    *)
(***************************************************************************)
\* longest text, in atoms, of the text-level specification
MaxTextLen == 4
\* most records of an export whose records are drawn freely from RecordPool
MaxShort == 2
\* most records of an export of plain records
MaxRaw == 32
\* largest small value of smart_mode.verbatim_recent_messages in config.json
MaxSmallCount == 2
\* most iterations of the spinner loop that are told apart
MaxSpins == 2

(***************************************************************************)
(* Program constants.                                                      *)
(***************************************************************************)
VERBATIM_MESSAGE_COUNT == 30
\* is_noise_message: len(content) < 100
NoiseLenThreshold == 100
\* generate_handoff_*: len(content) > 8000
VerbatimCharLimit == 8000
\* generate_smart_summary: msg['content'][:5000]
SummaryCharLimit == 5000
\* generate_smart_summary: len(conversation_text) > 350000
ConversationCharLimit == 350000
\* parse_json_export: msg.get('created_at', '')[:19]
TimestampChars == 19
\* generate_handoff_standard: file_paths[:30]
FilesListed == 30
\* extract_decisions: decisions[:20]
DecisionCap == 20
\* extract_decisions: len(line) > 20 and len(line) < 500
DecisionMinLen == 20
DecisionMaxLen == 500
\* extract_file_paths: len(p) > 5
PathMinLen == 5

(***************************************************************************)
(* Strings.                                                                *)
(***************************************************************************)
Lit(c, n) == [c |-> c, n |-> n]
Run(n) == [c |-> "x", n |-> n]

STAR == Lit("star", 1)
HOOK == Lit("hook", 1)
BOX == Lit("box", 1)
XBOX == Lit("xbox", 1)
SP == Lit(" ", 1)
NL == Lit("\n", 1)
COMPACTING == Lit("Compacting conversation", 23)
COMPACTING_UPPER == Lit("COMPACTING CONVERSATION", 23)
CHURNED == Lit("Churned for", 11)
CTRLC == Lit("ctrl+c to interrupt", 19)
THINKING == Lit("thinking)", 9)

\* len(s)
RECURSIVE StrLen(_)
StrLen(s) == IF s = << >> THEN 0 ELSE s[1].n + StrLen(Tail(s))

\* str.isspace() of one atom
IsSpace(a) == a.c \in {" ", "\n"}

\* s[:k]; a literal cut in the middle is no longer that literal
RECURSIVE Prefix(_, _)
Prefix(s, k) ==
    IF s = << >> \/ k <= 0 THEN << >>
    ELSE IF s[1].n <= k THEN << s[1] >> \o Prefix(Tail(s), k - s[1].n)
    ELSE IF s[1].c = "x" THEN << Run(k) >>
    ELSE << Lit("cut", k) >>

\* s.lstrip(), s.rstrip(), s.strip()
RECURSIVE LStrip(_)
LStrip(s) == IF s # << >> /\ IsSpace(s[1]) THEN LStrip(Tail(s)) ELSE s

RECURSIVE RStrip(_)
RStrip(s) ==
    IF s # << >> /\ IsSpace(s[Len(s)]) THEN RStrip(SubSeq(s, 1, Len(s) - 1)) ELSE s

strip(s) == RStrip(LStrip(s))

\* s.split('\n')
RECURSIVE split(_)
split(s) ==
    IF \A i \in 1..Len(s) : s[i] # NL THEN << s >>
    ELSE LET i == CHOOSE j \in 1..Len(s) :
                      s[j] = NL /\ \A k \in 1..(j - 1) : s[k] # NL
         IN  << SubSeq(s, 1, i - 1) >> \o split(SubSeq(s, i + 1, Len(s)))

\* '\n'.join(parts)
RECURSIVE join(_)
join(parts) ==
    IF parts = << >> THEN << >>
    ELSE IF Len(parts) = 1 THEN parts[1]
    ELSE parts[1] \o << NL >> \o join(Tail(parts))

\* the literal `sub in s`, for a literal that is one atom
Contains(s, sub) == \E i \in 1..Len(s) : s[i].c = sub

(***************************************************************************)
(* Regular expressions, as far as NOISE_PATTERNS uses them.  A pattern is  *)
(* a sequence of elements, each a literal or WS ("\s*"), anchored at the   *)
(* start of the line (^), at its end ($), or searched for anywhere.        *)
(***************************************************************************)
WS == "\\s*"

Pattern(atStart, elems, atEnd) == [atStart |-> atStart, elems |-> elems, atEnd |-> atEnd]

NOISE_PATTERNS == <<
    Pattern(TRUE, << "star", WS, "Compacting conversation" >>, FALSE),
    Pattern(TRUE, << "star", WS, "Churned for" >>, FALSE),
    Pattern(TRUE, << "star", WS, "Sauteed for" >>, FALSE),
    Pattern(TRUE, << "star", WS, "Brewed for" >>, FALSE),
    Pattern(TRUE, << "star", WS, "Worked for" >>, FALSE),
    Pattern(TRUE, << "star", WS, "Zigzagging" >>, FALSE),
    Pattern(TRUE, << WS, "hook", WS, "box" >>, FALSE),
    Pattern(TRUE, << WS, "hook", WS, "xbox" >>, FALSE),
    Pattern(TRUE, << "ctrl+c to interrupt" >>, FALSE),
    Pattern(FALSE, << "thinking)" >>, TRUE) >>

\* re.IGNORECASE: both sides are compared in lower case
Lower(c) ==
    CASE c = "Compacting conversation" -> "compacting conversation"
      [] c = "COMPACTING CONVERSATION" -> "compacting conversation"
      [] c = "Churned for" -> "churned for"
      [] OTHER -> c

\* elements j.. of pattern p match line from position i on
RECURSIVE MatchFrom(_, _, _, _)
MatchFrom(p, j, line, i) ==
    IF j > Len(p.elems) THEN (p.atEnd => i = Len(line) + 1)
    ELSE IF p.elems[j] = WS
         THEN \/ MatchFrom(p, j + 1, line, i)
              \/ /\ i <= Len(line)
                 /\ IsSpace(line[i])
                 /\ MatchFrom(p, j, line, i + 1)
         ELSE /\ i <= Len(line)
              /\ Lower(line[i].c) = Lower(p.elems[j])
              /\ MatchFrom(p, j + 1, line, i + 1)

\* re.search(pattern, line, re.IGNORECASE) is not None
re_search(p, line) ==
    \E i \in (IF p.atStart THEN {1} ELSE 1..(Len(line) + 1)) : MatchFrom(p, 1, line, i)

(***************************************************************************)
(* Noise filter.                                                           *)
(***************************************************************************)
\* the inner loop of filter_noise: is_noise of one line
is_noise_line(line) == \E k \in 1..Len(NOISE_PATTERNS) : re_search(NOISE_PATTERNS[k], line)

\* filter_noise with a `break` out of the loop over the lines at the first noise line
RECURSIVE filtered_lines_break(_)
filtered_lines_break(lines) ==
    IF lines = << >> THEN << >>
    ELSE IF is_noise_line(lines[1]) THEN Tail(lines)
    ELSE << lines[1] >> \o filtered_lines_break(Tail(lines))

\* the outer loop of filter_noise: filtered_lines
RECURSIVE filtered_lines(_)
filtered_lines(lines) ==
    IF lines = << >> THEN << >>
    ELSE (IF is_noise_line(lines[1]) THEN << >> ELSE << lines[1] >>)
         \o filtered_lines(Tail(lines))

filter_noise(content) == join(filtered_lines(split(content)))

noise_indicators == << "Compacting conversation", "ctrl+c to interrupt", "hook", "star" >>

\* is_noise_message without the two glyphs among its indicators
is_noise_message_phrases(content) ==
    LET c == strip(content)
    IN  /\ StrLen(c) < NoiseLenThreshold
        /\ \E k \in 1..2 : Contains(c, noise_indicators[k])

is_noise_message(content) ==
    LET c == strip(content)
    IN  /\ StrLen(c) < NoiseLenThreshold
        /\ \E k \in 1..Len(noise_indicators) : Contains(c, noise_indicators[k])

(***************************************************************************)
(* Message normalizer.                                                     *)
(*                                                                         *)
(* A raw record msg is [sender, content, text, created_at]; content is     *)
(* [kind, items, str]: kind "absent" (no 'content' key), "list" (items, a  *)
(* list of fragments) or "string" (str).  A fragment is [kind, text]:      *)
(* "dict" (text = item.get('text', ''), empty when there is none), "str"   *)
(* (a plain string) or "other" (a number, null, a list).                   *)
(***************************************************************************)
Frag(kind, text) == [kind |-> kind, text |-> text]
ContentAbsent == [kind |-> "absent", items |-> << >>, str |-> << >>]
ContentList(items) == [kind |-> "list", items |-> items, str |-> << >>]
ContentString(str) == [kind |-> "string", items |-> << >>, str |-> str]

\* iterating over a str: its characters, each a str of length one
RECURSIVE Chars(_)
Chars(s) ==
    IF s = << >> THEN << >>
    ELSE IF s[1].n = 1 THEN << Frag("str", << s[1] >>) >> \o Chars(Tail(s))
    ELSE << Frag("str", Prefix(<< s[1] >>, 1)) >>
         \o Chars(<< [s[1] EXCEPT !.c = IF @ = "x" THEN "x" ELSE "cut", !.n = @ - 1] >>
                  \o Tail(s))

\* the loop of extract_content_from_json: texts
RECURSIVE texts(_)
texts(items) ==
    IF items = << >> THEN << >>
    ELSE (CASE items[1].kind = "dict" ->
                   IF items[1].text # << >> THEN << items[1].text >> ELSE << >>
            [] items[1].kind = "str" -> << items[1].text >>
            [] OTHER -> << >>)
         \o texts(Tail(items))

extract_content_from_json(msg) ==
    CASE msg.content.kind = "list" /\ msg.content.items # << >> ->
             join(texts(msg.content.items))
      [] msg.content.kind = "string" /\ msg.content.str # << >> ->
             join(texts(Chars(msg.content.str)))
      [] OTHER -> msg.text

\* str.replace('T', ' ')
replace_T(s) == [i \in 1..Len(s) |-> IF s[i].c = "T" THEN SP ELSE s[i]]

\* the dict appended to messages
Turn(msg, content) ==
    [sender |-> msg.sender,
     content |-> content,
     timestamp |-> replace_T(Prefix(msg.created_at, TimestampChars))]

\* parse_json_export without the second `if not content.strip(): continue`
ParseRecord_keep_empty(msg) ==
    LET content == extract_content_from_json(msg)
        filtered == filter_noise(content)
    IN  IF strip(content) = << >> THEN << >>
        ELSE IF is_noise_message(filtered) THEN << >>
        ELSE << Turn(msg, filtered) >>

\* one iteration of the loop of parse_json_export: the turns it appends
ParseRecord(msg) ==
    LET content == extract_content_from_json(msg)
        filtered == filter_noise(content)
    IN  IF strip(content) = << >> THEN << >>
        ELSE IF strip(filtered) = << >> THEN << >>
        ELSE IF is_noise_message(filtered) THEN << >>
        ELSE << Turn(msg, filtered) >>

(***************************************************************************)
(* Signal extractor.  The path patterns match the path literals, each one  *)
(* atom; the decision markers match the marker literals.                   *)
(***************************************************************************)
\* every path literal, in the order of sorted()
PathOrder == << Lit("//cdn/x.js", 10), Lit("/t.py", 5), Lit("docs/b.md", 9), Lit("src/a.py", 8) >>

PathLits == {PathOrder[i] : i \in 1..Len(PathOrder)}

TODO == Lit("TODO:", 5)
WE_DECIDED == Lit("we decided", 10)

decision_markers == {"we decided", "convention", "architecture", "migration",
                     "important", "note:", "todo:"}

LowerMarker(c) ==
    CASE c = "TODO:" -> "todo:"
      [] c = "NOTE:" -> "note:"
      [] c = "IMPORTANT" -> "important"
      [] OTHER -> c

startswith_slashes(a) == a.c = "//cdn/x.js"

extract_file_paths(text) ==
    LET paths == {text[i] : i \in {j \in 1..Len(text) : text[j] \in PathLits}}
        keep(a) == a \in paths /\ a.n > PathMinLen /\ ~startswith_slashes(a)
    IN  SelectSeq(PathOrder, keep)

extract_decisions(text) ==
    LET lines == split(text)
        stripped == [i \in 1..Len(lines) |-> strip(lines[i])]
        qualifies(line) ==
            /\ StrLen(line) > DecisionMinLen
            /\ StrLen(line) < DecisionMaxLen
            /\ \E i \in 1..Len(line) : LowerMarker(line[i].c) \in decision_markers
        decisions == SelectSeq(stripped, qualifies)
    IN  SubSeq(decisions, 1, IF Len(decisions) < DecisionCap THEN Len(decisions) ELSE DecisionCap)

(***************************************************************************)
(* Python slicing of a list.                                               *)
(***************************************************************************)
Min(a, b) == IF a < b THEN a ELSE b
Max(a, b) == IF a > b THEN a ELSE b

\* the index a slice bound k denotes in a list of length n
SliceIndex(k, n) == IF k < 0 THEN Max(n + k, 0) ELSE Min(k, n)

\* seq[k:]
SliceFrom(seq, k) == SubSeq(seq, SliceIndex(k, Len(seq)) + 1, Len(seq))

\* seq[:k]
SliceTo(seq, k) == SubSeq(seq, 1, SliceIndex(k, Len(seq)))

(***************************************************************************)
(* Handoff generation.  A document is the sequence of its sections, each   *)
(* [sec, body], in the order the lines are appended.                       *)
(***************************************************************************)
Section(sec, body) == [sec |-> sec, body |-> body]

\* f"{n:,}": the digits of n
RECURSIVE Digits(_)
Digits(n) == IF n < 10 THEN 1 ELSE 1 + Digits(n \div 10)

TruncationMarker(n) ==
    << NL, NL,
       [c |-> "*[Truncated - original was N chars]*", n |-> 35 + Digits(n) + (Digits(n) - 1) \div 3,
        original |-> n] >>

\* the body of the loop over the verbatim messages
RenderTurn(msg) ==
    [sender_label |-> IF msg.sender = "human" THEN "**Human:**" ELSE "**Assistant:**",
     timestamp |-> msg.timestamp,
     content |-> IF StrLen(msg.content) > VerbatimCharLimit
                 THEN Prefix(msg.content, VerbatimCharLimit)
                      \o TruncationMarker(StrLen(msg.content))
                 ELSE msg.content]

RenderTurns(msgs) == [i \in 1..Len(msgs) |-> RenderTurn(msgs[i])]

AllText(messages) == join([i \in 1..Len(messages) |-> messages[i].content])

OptionalSection(present, sec, body) == IF present THEN << Section(sec, body) >> ELSE << >>

Footer == Section("Resumption Instructions", << >>)

generate_handoff_standard(d) ==
    LET messages == d.messages
        all_text == AllText(messages)
        file_paths == extract_file_paths(all_text)
        decisions == extract_decisions(all_text)
    IN  << Section("Handoff", [mode |-> "Standard", message_count |-> Len(messages)]) >>
        \o OptionalSection(d.summary # << >>, "Quick Context", d.summary)
        \o OptionalSection(file_paths # << >>, "Files Referenced",
                           SliceTo(file_paths, FilesListed))
        \o OptionalSection(decisions # << >>, "Key Decisions & Patterns", decisions)
        \o << Section("Recent Conversation (Verbatim)",
                      [last |-> Min(VERBATIM_MESSAGE_COUNT, Len(messages)),
                       turns |-> RenderTurns(SliceFrom(messages, -VERBATIM_MESSAGE_COUNT))]) >>
        \o << Footer >>

\* '\n\n'.join(parts)
RECURSIVE join_blank(_)
join_blank(parts) ==
    IF parts = << >> THEN << >>
    ELSE IF Len(parts) = 1 THEN parts[1]
    ELSE parts[1] \o << NL, NL >> \o join_blank(Tail(parts))

\* generate_smart_summary: conv_parts
conv_parts(msgs) ==
    [i \in 1..Len(msgs) |->
        << IF msgs[i].sender = "human" THEN Lit("[Human]: ", 9) ELSE Lit("[Assistant]: ", 13) >>
        \o Prefix(msgs[i].content, SummaryCharLimit)]

\* generate_smart_summary: conversation_text
conversation_text(msgs) ==
    LET text == join_blank(conv_parts(msgs))
    IN  IF StrLen(text) > ConversationCharLimit
        THEN Prefix(text, ConversationCharLimit)
             \o << NL, NL, Lit("[...truncated due to size...]", 29) >>
        ELSE text

\* config.get('smart_mode', {}).get('verbatim_recent_messages', VERBATIM_MESSAGE_COUNT)
verbatim_count_of(cfg) ==
    IF cfg.has_verbatim THEN cfg.verbatim_recent_messages ELSE VERBATIM_MESSAGE_COUNT

older_messages_of(messages, verbatim_count) ==
    IF Len(messages) > verbatim_count THEN SliceTo(messages, -verbatim_count) ELSE << >>

\* generate_handoff_smart keeping no turn verbatim unless the count is positive
recent_messages_of_guarded(messages, verbatim_count) ==
    IF verbatim_count > 0 THEN SliceFrom(messages, -verbatim_count) ELSE << >>

recent_messages_of(messages, verbatim_count) == SliceFrom(messages, -verbatim_count)

\* generate_handoff_smart testing ai_summary where it should test data['summary']
build_handoff_smart_wrong_test(d, older_messages, recent_messages, summary) ==
    << Section("Handoff", [mode |-> "Smart", message_count |-> Len(d.messages),
                           summarized |-> Len(older_messages),
                           verbatim |-> Len(recent_messages)]) >>
    \o OptionalSection(summary # << >>, "Quick Context", d.summary)
    \o OptionalSection(summary # << >>, "AI-Summarized Earlier Content", summary)
    \o << Section("Recent Conversation (Verbatim)",
                  [last |-> Len(recent_messages), turns |-> RenderTurns(recent_messages)]) >>
    \o << Footer >>

\* generate_handoff_smart from "Build handoff" on
build_handoff_smart(d, older_messages, recent_messages, summary) ==
    << Section("Handoff", [mode |-> "Smart", message_count |-> Len(d.messages),
                           summarized |-> Len(older_messages),
                           verbatim |-> Len(recent_messages)]) >>
    \o OptionalSection(d.summary # << >>, "Quick Context", d.summary)
    \o OptionalSection(summary # << >>, "AI-Summarized Earlier Content", summary)
    \o << Section("Recent Conversation (Verbatim)",
                  [last |-> Len(recent_messages), turns |-> RenderTurns(recent_messages)]) >>
    \o << Footer >>

(***************************************************************************)
(* Inputs: the export files and config.json files the runs are checked on. *)
(***************************************************************************)
\* created_at of the i-th record: an ISO 8601 date-time with a fraction
CreatedAt(i) ==
    << Lit("2025-06-01", 10), Lit("T", 1), [c |-> "hh:mm:ss", n |-> 8, at |-> i],
       Lit(".000Z", 5) >>

Record(sender, content, text) == [sender |-> sender, content |-> content, text |-> text]

\* the records that make up the short exports
RecordPool == {
    \* a message in the 'text' field, its second line a compaction notice
    Record("assistant", ContentAbsent, << Run(3), NL, STAR, SP, COMPACTING >>),
    \* nothing but a compaction notice
    Record("human", ContentList(<< Frag("dict", << STAR, SP, COMPACTING, Run(3) >>) >>), << >>),
    \* a message longer than the verbatim limit that mentions the status glyph
    Record("assistant", ContentList(<< Frag("dict", << Run(9000), SP, STAR >>) >>), << >>),
    \* a short message that mentions the status glyph
    Record("human", ContentList(<< Frag("str", << Run(3), SP, HOOK >>) >>), << >>),
    \* an empty message
    Record("assistant", ContentAbsent, << >>),
    \* a message whose 'content' is one string
    Record("human", ContentString(<< Run(2) >>), << >>),
    \* a decision and file paths, in several fragments
    Record("assistant",
           ContentList(<< Frag("dict", << TODO, SP, Run(20) >>), Frag("other", << >>),
                          Frag("dict", << >>),
                          Frag("str", << Lit("src/a.py", 8), SP, Lit("docs/b.md", 9), SP,
                                         Lit("/t.py", 5), SP, Lit("//cdn/x.js", 10) >>) >>),
           << >>) }

Stamp(rec, i) ==
    [sender |-> rec.sender, content |-> rec.content, text |-> rec.text,
     created_at |-> CreatedAt(i)]

PlainRecord(i) ==
    Record(IF i % 2 = 1 THEN "human" ELSE "assistant",
           ContentList(<< Frag("dict", << Run(i) >>) >>), << >>)

ShortRawLists ==
    UNION {{[i \in 1..n |-> Stamp(f[i], i)] : f \in [1..n -> RecordPool]} : n \in 0..MaxShort}

PlainRawLists ==
    {[i \in 1..n |-> Stamp(PlainRecord(i), i)] : n \in (VERBATIM_MESSAGE_COUNT - 1)..MaxRaw}

RawLists == ShortRawLists \cup PlainRawLists

Summaries == {<< >>, << Run(40) >>}

Export(has_cm, cm, has_m, m, summary) ==
    [has_chat_messages |-> has_cm, chat_messages |-> cm,
     has_messages |-> has_m, messages |-> m, summary |-> summary]

Exports ==
    {Export(TRUE, r, FALSE, << >>, s) : r \in RawLists, s \in Summaries}
    \cup {Export(FALSE, << >>, TRUE, r, << >>) : r \in RawLists}
    \cup {Export(TRUE, r, TRUE, << Stamp(PlainRecord(1), 1) >>, << >>) : r \in ShortRawLists}
    \cup {Export(FALSE, << >>, FALSE, << >>, s) : s \in Summaries}

\* data.get('chat_messages', data.get('messages', []))
raw_messages_of(e) ==
    IF e.has_chat_messages THEN e.chat_messages
    ELSE IF e.has_messages THEN e.messages
    ELSE << >>

VerbatimCounts ==
    ((-MaxSmallCount)..MaxSmallCount) \cup ((VERBATIM_MESSAGE_COUNT - 1)..MaxRaw)

Config(has_key, has_verbatim, n) ==
    [has_key |-> has_key, has_verbatim |-> has_verbatim, verbatim_recent_messages |-> n]

Configs ==
    {Config(TRUE, TRUE, n) : n \in VerbatimCounts}
    \cup {Config(k, FALSE, 0) : k \in BOOLEAN}

\* what call_claude_api does: return result['content'][0]['text'], or raise
ApiReturn(text) == [ok |-> TRUE, text |-> text, error |-> "none"]
ApiRaise(error) == [ok |-> FALSE, text |-> << >>, error |-> error]

ApiOutcomes ==
    {ApiReturn(<< Lit("## Session Overview", 19), NL, Run(200) >>), ApiReturn(<< >>),
     ApiRaise("API Error"), ApiRaise("API call failed: timed out"),
     ApiRaise("API call failed: malformed response")}

NoCall == ApiRaise("no call")

(***************************************************************************)
(* The run of main().                                                      *)
(***************************************************************************)
VARIABLES
    pc,               \* where main() is
    config,           \* load_config()
    export,           \* json.load(f) in parse_json_export
    idx,              \* the position of the loop over raw_messages
    messages,         \* parse_json_export: messages
    data,             \* main: data
    mode,             \* main: mode
    older_messages,   \* generate_handoff_smart
    recent_messages,  \* generate_handoff_smart
    api_result,       \* the outcome of call_claude_api
    api_calls,        \* how often call_claude_api was called
    ai_summary,       \* generate_handoff_smart
    running,          \* Spinner.running
    thread,           \* Spinner.thread: "none", "alive" or "done"
    spins,            \* Spinner._spin: i
    standard_calls,   \* how often generate_handoff_standard was called
    handoff_content,  \* main: handoff_content
    output_file,      \* the file at output_path
    error,            \* what the run printed as ERROR
    text_in,          \* filter_noise: content, in the text-level specification
    filtered_once,    \* filter_noise(content)
    filtered_twice,   \* filter_noise(filter_noise(content))
    request           \* generate_smart_summary: conversation_text, sent in the prompt

filter_vars == << text_in, filtered_once, filtered_twice >>

vars == << pc, config, export, idx, messages, data, mode, older_messages, recent_messages,
           api_result, api_calls, ai_summary, running, thread, spins, standard_calls,
           handoff_content, output_file, error, text_in, filtered_once, filtered_twice,
           request >>

NoExport == Export(FALSE, << >>, FALSE, << >>, << >>)
NoData == [summary |-> << >>, messages |-> << >>]

Init ==
    /\ pc = "load_config"
    /\ config = Config(FALSE, FALSE, 0)
    /\ export = NoExport
    /\ idx = 0
    /\ messages = << >>
    /\ data = NoData
    /\ mode = "none"
    /\ older_messages = << >>
    /\ recent_messages = << >>
    /\ api_result = NoCall
    /\ api_calls = 0
    /\ ai_summary = << >>
    /\ running = FALSE
    /\ thread = "none"
    /\ spins = 0
    /\ standard_calls = 0
    /\ handoff_content = << >>
    /\ output_file = << >>
    /\ error = "none"
    /\ text_in = << >>
    /\ filtered_once = << >>
    /\ filtered_twice = << >>
    /\ request = << >>

\* main: config = load_config()
LoadConfig ==
    /\ pc = "load_config"
    /\ \E cfg \in Configs : config' = cfg
    /\ pc' = "read_export"
    /\ UNCHANGED << export, idx, messages, data, mode, older_messages, recent_messages,
                    api_result, api_calls, ai_summary, running, thread, spins,
                    standard_calls, handoff_content, output_file, error >>
    /\ UNCHANGED filter_vars
    /\ UNCHANGED request

\* parse_json_export validating 'chat_messages' alone
ReadExport_chat_messages_only ==
    /\ pc = "read_export"
    /\ \E e \in Exports :
           /\ export' = e
           /\ IF ~e.has_chat_messages
              THEN /\ pc' = "exit"
                   /\ error' = "Invalid JSON format"
                   /\ idx' = idx
              ELSE /\ pc' = "parse_loop"
                   /\ error' = error
                   /\ idx' = 1
    /\ messages' = << >>
    /\ UNCHANGED << config, data, mode, older_messages, recent_messages, api_result,
                    api_calls, ai_summary, running, thread, spins, standard_calls,
                    handoff_content, output_file >>
    /\ UNCHANGED filter_vars
    /\ UNCHANGED request

\* parse_json_export up to the loop: json.load and the validation; main prints the
\* ValueError and calls sys.exit(1)
ReadExport ==
    /\ pc = "read_export"
    /\ \E e \in Exports :
           /\ export' = e
           /\ IF ~e.has_chat_messages /\ ~e.has_messages
              THEN /\ pc' = "exit"
                   /\ error' = "Invalid JSON format"
                   /\ idx' = idx
              ELSE /\ pc' = "parse_loop"
                   /\ error' = error
                   /\ idx' = 1
    /\ messages' = << >>
    /\ UNCHANGED << config, data, mode, older_messages, recent_messages, api_result,
                    api_calls, ai_summary, running, thread, spins, standard_calls,
                    handoff_content, output_file >>
    /\ UNCHANGED filter_vars
    /\ UNCHANGED request

\* parse_json_export with messages.insert(0, ...) for messages.append(...)
ParseMsg_insert_first ==
    /\ pc = "parse_loop"
    /\ idx <= Len(raw_messages_of(export))
    /\ messages' = ParseRecord(raw_messages_of(export)[idx]) \o messages
    /\ idx' = idx + 1
    /\ UNCHANGED << pc, config, export, data, mode, older_messages, recent_messages,
                    api_result, api_calls, ai_summary, running, thread, spins,
                    standard_calls, handoff_content, output_file, error >>
    /\ UNCHANGED filter_vars
    /\ UNCHANGED request

\* one iteration of `for msg in raw_messages`
ParseMsg ==
    /\ pc = "parse_loop"
    /\ idx <= Len(raw_messages_of(export))
    /\ messages' = messages \o ParseRecord(raw_messages_of(export)[idx])
    /\ idx' = idx + 1
    /\ UNCHANGED << pc, config, export, data, mode, older_messages, recent_messages,
                    api_result, api_calls, ai_summary, running, thread, spins,
                    standard_calls, handoff_content, output_file, error >>
    /\ UNCHANGED filter_vars
    /\ UNCHANGED request

\* the return of parse_json_export
ParseReturn ==
    /\ pc = "parse_loop"
    /\ idx > Len(raw_messages_of(export))
    /\ data' = [summary |-> export.summary, messages |-> messages]
    /\ pc' = "get_mode"
    /\ UNCHANGED << config, export, idx, messages, mode, older_messages, recent_messages,
                    api_result, api_calls, ai_summary, running, thread, spins,
                    standard_calls, handoff_content, output_file, error >>
    /\ UNCHANGED filter_vars
    /\ UNCHANGED request

\* get_mode: standard without an API key, else what the user selects
GetMode ==
    /\ pc = "get_mode"
    /\ \E m \in (IF config.has_key THEN {"smart", "standard"} ELSE {"standard"}) : mode' = m
    /\ pc' = "generate"
    /\ UNCHANGED << config, export, idx, messages, data, older_messages, recent_messages,
                    api_result, api_calls, ai_summary, running, thread, spins,
                    standard_calls, handoff_content, output_file, error >>
    /\ UNCHANGED filter_vars
    /\ UNCHANGED request

\* main: handoff_content = generate_handoff_standard(data)
GenerateStandard ==
    /\ pc = "generate"
    /\ mode = "standard"
    /\ handoff_content' = generate_handoff_standard(data)
    /\ standard_calls' = standard_calls + 1
    /\ pc' = "save"
    /\ UNCHANGED << config, export, idx, messages, data, mode, older_messages,
                    recent_messages, api_result, api_calls, ai_summary, running, thread,
                    spins, output_file, error >>
    /\ UNCHANGED filter_vars
    /\ UNCHANGED request

\* generate_handoff_smart up to the call of generate_smart_summary
SmartSplit ==
    /\ pc = "generate"
    /\ mode = "smart"
    /\ older_messages' = older_messages_of(data.messages, verbatim_count_of(config))
    /\ recent_messages' = recent_messages_of(data.messages, verbatim_count_of(config))
    /\ ai_summary' = << >>
    /\ pc' = IF older_messages' # << >> THEN "smart_summary" ELSE "build"
    /\ UNCHANGED << config, export, idx, messages, data, mode, api_result, api_calls,
                    running, thread, spins, standard_calls, handoff_content, output_file,
                    error >>
    /\ UNCHANGED filter_vars
    /\ UNCHANGED request

\* generate_smart_summary up to spinner.start(): the prompt; and Spinner.start
SpinnerStart ==
    /\ pc = "smart_summary"
    /\ running' = TRUE
    /\ thread' = "alive"
    /\ spins' = 0
    /\ request' = conversation_text(older_messages)
    /\ pc' = "api_call"
    /\ UNCHANGED << config, export, idx, messages, data, mode, older_messages,
                    recent_messages, api_result, api_calls, ai_summary, standard_calls,
                    handoff_content, output_file, error >>
    /\ UNCHANGED filter_vars

\* Spinner._spin: one iteration of `while self.running`
Spin ==
    /\ thread = "alive"
    /\ running
    /\ spins < MaxSpins
    /\ spins' = spins + 1
    /\ UNCHANGED << pc, config, export, idx, messages, data, mode, older_messages,
                    recent_messages, api_result, api_calls, ai_summary, running, thread,
                    standard_calls, handoff_content, output_file, error >>
    /\ UNCHANGED filter_vars
    /\ UNCHANGED request

\* Spinner._spin: the loop ends and the thread terminates
SpinExit ==
    /\ thread = "alive"
    /\ ~running
    /\ thread' = "done"
    /\ spins' = 0
    /\ UNCHANGED << pc, config, export, idx, messages, data, mode, older_messages,
                    recent_messages, api_result, api_calls, ai_summary, running,
                    standard_calls, handoff_content, output_file, error >>
    /\ UNCHANGED filter_vars
    /\ UNCHANGED request

\* generate_smart_summary: call_claude_api returns or raises
CallApi ==
    /\ pc = "api_call"
    /\ \E r \in ApiOutcomes : api_result' = r
    /\ api_calls' = api_calls + 1
    /\ pc' = "spinner_stop"
    /\ UNCHANGED << config, export, idx, messages, data, mode, older_messages,
                    recent_messages, ai_summary, running, thread, spins, standard_calls,
                    handoff_content, output_file, error >>
    /\ UNCHANGED filter_vars
    /\ UNCHANGED request

\* Spinner.stop, in the finally clause: self.running = False
SpinnerStop ==
    /\ pc = "spinner_stop"
    /\ running' = FALSE
    /\ pc' = "join"
    /\ UNCHANGED << config, export, idx, messages, data, mode, older_messages,
                    recent_messages, api_result, api_calls, ai_summary, thread, spins,
                    standard_calls, handoff_content, output_file, error >>
    /\ UNCHANGED filter_vars
    /\ UNCHANGED request

\* Spinner.stop without self.thread.join()
SpinnerJoin_no_join ==
    /\ pc = "join"
    /\ IF api_result.ok
       THEN /\ ai_summary' = api_result.text
            /\ pc' = "build"
            /\ error' = error
       ELSE /\ ai_summary' = ai_summary
            /\ pc' = "error"
            /\ error' = api_result.error
    /\ UNCHANGED << config, export, idx, messages, data, mode, older_messages,
                    recent_messages, api_result, api_calls, running, thread, spins,
                    standard_calls, handoff_content, output_file >>
    /\ UNCHANGED filter_vars
    /\ UNCHANGED request

\* main catching the failure of the API and falling back to the standard mode
SpinnerJoin_fallback ==
    /\ pc = "join"
    /\ thread = "done"
    /\ IF api_result.ok
       THEN /\ ai_summary' = api_result.text
            /\ pc' = "build"
            /\ mode' = mode
       ELSE /\ ai_summary' = ai_summary
            /\ pc' = "generate"
            /\ mode' = "standard"
    /\ UNCHANGED << config, export, idx, messages, data, older_messages, recent_messages,
                    api_result, api_calls, running, thread, spins, standard_calls,
                    handoff_content, output_file, error >>
    /\ UNCHANGED filter_vars
    /\ UNCHANGED request

\* Spinner.stop: self.thread.join() returns; then generate_smart_summary returns the
\* result, or the exception leaves generate_handoff_smart and main
SpinnerJoin ==
    /\ pc = "join"
    /\ thread = "done"
    /\ IF api_result.ok
       THEN /\ ai_summary' = api_result.text
            /\ pc' = "build"
            /\ error' = error
       ELSE /\ ai_summary' = ai_summary
            /\ pc' = "error"
            /\ error' = api_result.error
    /\ UNCHANGED << config, export, idx, messages, data, mode, older_messages,
                    recent_messages, api_result, api_calls, running, thread, spins,
                    standard_calls, handoff_content, output_file >>
    /\ UNCHANGED filter_vars
    /\ UNCHANGED request

\* generate_handoff_smart from "Build handoff" on
BuildSmart ==
    /\ pc = "build"
    /\ handoff_content' = build_handoff_smart(data, older_messages, recent_messages, ai_summary)
    /\ pc' = "save"
    /\ UNCHANGED << config, export, idx, messages, data, mode, older_messages,
                    recent_messages, api_result, api_calls, ai_summary, running, thread,
                    spins, standard_calls, output_file, error >>
    /\ UNCHANGED filter_vars
    /\ UNCHANGED request

\* main: f.write(handoff_content)
Save ==
    /\ pc = "save"
    /\ output_file' = handoff_content
    /\ pc' = "done"
    /\ UNCHANGED << config, export, idx, messages, data, mode, older_messages,
                    recent_messages, api_result, api_calls, ai_summary, running, thread,
                    spins, standard_calls, handoff_content, error >>
    /\ UNCHANGED filter_vars
    /\ UNCHANGED request

Next ==
    \/ LoadConfig
    \/ ReadExport
    \/ ParseMsg
    \/ ParseReturn
    \/ GetMode
    \/ GenerateStandard
    \/ SmartSplit
    \/ SpinnerStart
    \/ Spin
    \/ SpinExit
    \/ CallApi
    \/ SpinnerStop
    \/ SpinnerJoin
    \/ BuildSmart
    \/ Save

Spec == Init /\ [][Next]_vars

\* the scheduler runs the spinner thread: its loop is left once running is False
FairSpec == Spec /\ WF_vars(SpinExit)

(***************************************************************************)
(* The text-level specification: filter_noise, applied once and twice to   *)
(* every text of at most MaxTextLen atoms, and parse_json_export on the    *)
(* export whose one record carries that text.                              *)
(***************************************************************************)
Alphabet == {STAR, HOOK, BOX, SP, NL, COMPACTING, COMPACTING_UPPER, CTRLC, THINKING,
             Run(1), Run(100)}

Texts == UNION {[1..n -> Alphabet] : n \in 0..MaxTextLen}

TextInit ==
    /\ text_in \in Texts
    /\ pc = "filter"
    /\ config = Config(FALSE, FALSE, 0)
    /\ export = Export(TRUE,
                       << Stamp(Record("human", ContentList(<< Frag("dict", text_in) >>),
                                       << >>), 1) >>,
                       FALSE, << >>, << >>)
    /\ idx = 1
    /\ messages = << >>
    /\ data = NoData
    /\ mode = "none"
    /\ older_messages = << >>
    /\ recent_messages = << >>
    /\ api_result = NoCall
    /\ api_calls = 0
    /\ ai_summary = << >>
    /\ running = FALSE
    /\ thread = "none"
    /\ spins = 0
    /\ standard_calls = 0
    /\ handoff_content = << >>
    /\ output_file = << >>
    /\ error = "none"
    /\ filtered_once = << >>
    /\ filtered_twice = << >>
    /\ request = << >>

main_vars == << config, export, idx, messages, data, mode, older_messages, recent_messages,
                api_result, api_calls, ai_summary, running, thread, spins, standard_calls,
                handoff_content, output_file, error >>

\* filtered = filter_noise(content)
ApplyFilter ==
    /\ pc = "filter"
    /\ filtered_once' = filter_noise(text_in)
    /\ pc' = "filter_again"
    /\ UNCHANGED << text_in, filtered_twice >>
    /\ UNCHANGED main_vars
    /\ UNCHANGED request

\* filter_noise(filtered)
ApplyFilterAgain ==
    /\ pc = "filter_again"
    /\ filtered_twice' = filter_noise(filtered_once)
    /\ pc' = "parse_loop"
    /\ UNCHANGED << text_in, filtered_once >>
    /\ UNCHANGED main_vars
    /\ UNCHANGED request

TextNext ==
    \/ ApplyFilter
    \/ ApplyFilterAgain
    \/ ParseMsg
    \/ ParseReturn

TextSpec == TextInit /\ [][TextNext]_vars

(***************************************************************************)
(* Properties.                                                             *)
(***************************************************************************)
RECURSIVE IsSubseq(_, _)
IsSubseq(a, b) ==
    IF a = << >> THEN TRUE
    ELSE IF b = << >> THEN FALSE
    ELSE IF a[1] = b[1] THEN IsSubseq(Tail(a), Tail(b))
    ELSE IsSubseq(a, Tail(b))

NoNoiseLine(content) ==
    \A i \in 1..Len(split(content)) : ~is_noise_line(split(content)[i])

HasIndicator(content) ==
    \E k \in 1..Len(noise_indicators) : Contains(content, noise_indicators[k])

Parsed == pc \notin {"load_config", "read_export", "filter", "filter_again", "parse_loop", "exit"}

Generated == pc \in {"save", "done"}

VerbatimSection(doc) ==
    (CHOOSE i \in 1..Len(doc) : doc[i].sec = "Recent Conversation (Verbatim)")

HasSection(doc, sec) == \E i \in 1..Len(doc) : doc[i].sec = sec

\* the verbatim turns of the document the run generated, or of the one the other
\* strategy generates from the same data and configuration
StandardTurns ==
    LET doc == IF mode = "standard" THEN handoff_content ELSE generate_handoff_standard(data)
    IN  doc[VerbatimSection(doc)].body.turns

SmartTurns ==
    LET n == verbatim_count_of(config)
        doc == IF mode = "smart" THEN handoff_content
               ELSE build_handoff_smart(data, older_messages_of(data.messages, n),
                                        recent_messages_of(data.messages, n), << >>)
    IN  doc[VerbatimSection(doc)].body.turns

\* the last n turns, or all turns if fewer than n exist
LastTurns(msgs, n) == SubSeq(msgs, Max(Len(msgs) - n, 0) + 1, Len(msgs))

\* C1, as stated: every Turn kept by parse_json_export has no line that matches a
\* line-level noise pattern and contains none of the message-level noise indicators,
\* whatever the length of its text.
C1_NoNoiseAnyLength ==
    \A i \in 1..Len(messages) :
        /\ NoNoiseLine(messages[i].content)
        /\ ~HasIndicator(messages[i].content)

\* C1, amended: every Turn kept by parse_json_export has no line that matches a
\* line-level noise pattern, and contains none of the message-level noise indicators
\* if its stripped text is shorter than 100 characters.
C1_NoNoiseShort ==
    \A i \in 1..Len(messages) :
        /\ NoNoiseLine(messages[i].content)
        /\ StrLen(strip(messages[i].content)) < NoiseLenThreshold
               => ~HasIndicator(messages[i].content)

\* a short turn was kept after the filter removed a noise line from it
C1_Witness ==
    /\ pc = "get_mode"
    /\ Len(data.messages) = 1
    /\ data.messages[1].content # text_in
    /\ StrLen(strip(data.messages[1].content)) < NoiseLenThreshold

\* C2, as stated: for a configured verbatim count N >= 0, the number of turns either
\* strategy renders in the verbatim section never exceeds min(N, total turn count).
C2_VerbatimBound ==
    (Generated /\ verbatim_count_of(config) >= 0) =>
        Len(handoff_content[VerbatimSection(handoff_content)].body.turns)
            <= Min(verbatim_count_of(config), Len(data.messages))

\* C3, as stated: for the same Conversation and configuration both strategies render
\* the same turns verbatim: the last N turns, or all turns if fewer than N exist.
C3_SameVerbatimTurns ==
    (Generated /\ verbatim_count_of(config) >= 0) =>
        /\ StandardTurns = SmartTurns
        /\ SmartTurns = RenderTurns(LastTurns(data.messages, verbatim_count_of(config)))

\* C4: once the summarization call has failed, the run ends in the error and never
\* generates or writes a document nor calls generate_handoff_standard.
C4_FailurePropagates ==
    (api_calls > 0 /\ ~api_result.ok) =>
        /\ pc \in {"spinner_stop", "join", "error"}
        /\ pc = "error" => error = api_result.error
        /\ handoff_content = << >>
        /\ output_file = << >>
        /\ standard_calls = 0

\* the run ended in the error of a timed out call
C4_Witness ==
    /\ pc = "error"
    /\ mode = "smart"
    /\ api_result = ApiRaise("API call failed: timed out")
    /\ error = "API call failed: timed out"

C5_Safety ==
    /\ pc = "api_call" => (running /\ thread = "alive")
    /\ api_calls > 0 => thread # "none"
    /\ (api_calls > 0 /\ pc \in {"build", "save", "done", "error"})
           => (thread = "done" /\ ~running)

\* C5: the spinner runs when the call is issued, it is stopped and its thread has
\* terminated when generate_smart_summary returns or raises, and its thread
\* terminates once stop() is called.
C5_SpinnerScoped == [](C5_Safety) /\ ((pc = "join") ~> (thread = "done"))

\* the call raised, and the thread of the spinner has terminated
C5_Witness ==
    /\ pc = "error"
    /\ api_calls = 1
    /\ thread = "done"
    /\ ~running

\* C6, as stated: with no more turns than the configured verbatim count, the older
\* prefix is empty, no summarization call is made, the document has no AI summary
\* and the verbatim section of both strategies holds every turn.
C6_ShortConversation ==
    (Generated /\ Len(data.messages) <= verbatim_count_of(config)) =>
        /\ older_messages_of(data.messages, verbatim_count_of(config)) = << >>
        /\ mode = "smart" =>
               /\ api_calls = 0
               /\ ~HasSection(handoff_content, "AI-Summarized Earlier Content")
        /\ SmartTurns = RenderTurns(data.messages)
        /\ StandardTurns = RenderTurns(data.messages)

\* C7: an export with neither 'chat_messages' nor 'messages' ends the run in the
\* format error with no Turn, no strategy run and no document; an export with one
\* of them raises no format error.
C7_FormatError ==
    (pc \notin {"load_config", "read_export"}) =>
        IF ~export.has_chat_messages /\ ~export.has_messages
        THEN /\ pc = "exit"
             /\ error = "Invalid JSON format"
             /\ messages = << >>
             /\ data = NoData
             /\ mode = "none"
             /\ standard_calls = 0
             /\ api_calls = 0
             /\ handoff_content = << >>
             /\ output_file = << >>
        ELSE /\ pc # "exit"
             /\ error # "Invalid JSON format"

\* the run ended in the format error
C7_Witness ==
    /\ pc = "exit"
    /\ error = "Invalid JSON format"
    /\ ~export.has_chat_messages
    /\ ~export.has_messages

\* the lines of a text that filter_noise returned
SurvivingLines(out) == IF out = << >> THEN << >> ELSE split(out)

\* C8: filter_noise(filter_noise(text)) = filter_noise(text), and the lines of
\* filter_noise(text) are a subsequence of the lines of text.
C8_FilterIdempotent ==
    (pc \notin {"filter", "filter_again"}) =>
        /\ filtered_twice = filtered_once
        /\ IsSubseq(SurvivingLines(filtered_once), split(text_in))

\* the filter dropped some lines of a text and kept others
C8_Witness ==
    /\ pc = "parse_loop"
    /\ filtered_once # << >>
    /\ Len(split(filtered_once)) < Len(split(text_in))
    /\ Len(split(filtered_once)) > 1
    /\ \E i \in 1..Len(filtered_once) : filtered_once[i].c = "x"

SectionRank(sec) ==
    CASE sec = "Handoff" -> 1
      [] sec = "Quick Context" -> 2
      [] sec = "Files Referenced" -> 3
      [] sec = "Key Decisions & Patterns" -> 4
      [] sec = "AI-Summarized Earlier Content" -> 5
      [] sec = "Recent Conversation (Verbatim)" -> 6
      [] sec = "Resumption Instructions" -> 7
      [] OTHER -> 0

\* C9: a document has its sections in the fixed order, always the header, the
\* verbatim section and the footer, the built-in summary section if and only if
\* data['summary'] is non-empty, and only the body sections of its mode.
C9_SectionOrder ==
    handoff_content # << >> =>
        LET doc == handoff_content
        IN  /\ \A i \in 1..Len(doc) : SectionRank(doc[i].sec) > 0
            /\ \A i \in 1..(Len(doc) - 1) : SectionRank(doc[i].sec) < SectionRank(doc[i + 1].sec)
            /\ doc[1].sec = "Handoff"
            /\ doc[Len(doc)].sec = "Resumption Instructions"
            /\ HasSection(doc, "Recent Conversation (Verbatim)")
            /\ HasSection(doc, "Quick Context") <=> (data.summary # << >>)
            /\ mode = "standard" => ~HasSection(doc, "AI-Summarized Earlier Content")
            /\ mode = "smart" => /\ ~HasSection(doc, "Files Referenced")
                                 /\ ~HasSection(doc, "Key Decisions & Patterns")

\* a document of an empty Conversation was written
C9_Witness ==
    /\ pc = "done"
    /\ data.messages = << >>
    /\ data.summary = << >>
    /\ Len(output_file) = 3

EmptyAfterFilter(msg) == strip(filter_noise(extract_content_from_json(msg))) = << >>

KeptRecords(raw) ==
    {i \in 1..Len(raw) :
         /\ ~EmptyAfterFilter(raw[i])
         /\ ~is_noise_message(filter_noise(extract_content_from_json(raw[i])))}

\* C10: every Turn of the Conversation has a non-empty text, and the Conversation
\* has one turn for each raw record whose text is neither empty, nor empty after
\* the line filter, nor noise as a whole.
C10_NonEmptyTurns ==
    /\ \A i \in 1..Len(messages) : strip(messages[i].content) # << >>
    /\ pc = "get_mode" => Len(data.messages) = Cardinality(KeptRecords(raw_messages_of(export)))

\* a record that was nothing but a compaction notice was dropped, the other kept
C10_Witness ==
    /\ pc = "get_mode"
    /\ Len(raw_messages_of(export)) = 2
    /\ Len(data.messages) = 1
    /\ \E i \in 1..2 :
           /\ extract_content_from_json(raw_messages_of(export)[i]) # << >>
           /\ filter_noise(extract_content_from_json(raw_messages_of(export)[i])) = << >>

\* sender and timestamp of every raw record, and of every turn, in their order
RawKeys(raw) ==
    [i \in 1..Len(raw) |->
        [sender |-> raw[i].sender,
         timestamp |-> replace_T(Prefix(raw[i].created_at, TimestampChars))]]

TurnKeys(msgs) ==
    [i \in 1..Len(msgs) |-> [sender |-> msgs[i].sender, timestamp |-> msgs[i].timestamp]]

Timestamps(seq) == [i \in 1..Len(seq) |-> seq[i].timestamp]

\* the characters of a text other than the newlines and the role labels
IsBodyAtom(a) == a.c \notin {"\n", "[Human]: ", "[Assistant]: "}

Body(s) == SelectSeq(s, IsBodyAtom)

RECURSIVE Bodies(_)
Bodies(msgs) ==
    IF msgs = << >> THEN << >>
    ELSE Body(Prefix(msgs[1].content, SummaryCharLimit)) \o Bodies(Tail(msgs))

\* C11: the turns, in the loop and in the Conversation, are a subsequence of the raw
\* records in export order; so are the older prefix, the recent suffix and the
\* turns rendered verbatim; the text serialized for summarization has the older
\* turns in that order.
C11_OrderPreserved ==
    LET keys == RawKeys(raw_messages_of(export))
    IN  /\ IsSubseq(TurnKeys(messages), keys)
        /\ IsSubseq(TurnKeys(data.messages), keys)
        /\ IsSubseq(TurnKeys(older_messages), keys)
        /\ IsSubseq(TurnKeys(recent_messages), keys)
        /\ handoff_content # << >> =>
               IsSubseq(Timestamps(handoff_content[VerbatimSection(handoff_content)].body.turns),
                        Timestamps(keys))
        /\ thread # "none" => Body(request) = Bodies(older_messages)

\* a smart run summarized several turns and rendered several turns
C11_Witness ==
    /\ pc = "done"
    /\ mode = "smart"
    /\ Len(older_messages) > 1
    /\ Len(recent_messages) > 1
    /\ Len(output_file[VerbatimSection(output_file)].body.turns) > 1
    /\ request # << >>

IsTextFragment(item) == item.kind = "str" \/ (item.kind = "dict" /\ item.text # << >>)

FragmentTexts(items) ==
    LET kept == SelectSeq(items, IsTextFragment)
    IN  [i \in 1..Len(kept) |-> kept[i].text]

\* the text of a raw record before filtering, as C12 states it
PayloadText(msg) ==
    CASE msg.content.kind = "string" /\ msg.content.str # << >> -> msg.content.str
      [] msg.content.kind = "list" /\ msg.content.items # << >> ->
             join(FragmentTexts(msg.content.items))
      [] OTHER -> msg.text

\* C12, as stated: the text the normalizer extracts from a raw record is the payload
\* string itself when the payload is one string, and else the newline-join, in
\* order, of the plain-text fragments and of the non-empty 'text' fields.
C12_ExtractedText ==
    LET raw == raw_messages_of(export)
    IN  \A i \in 1..Len(raw) :
            i < idx => extract_content_from_json(raw[i]) = PayloadText(raw[i])

\* the Assisted Strategy has split the turns
SplitDone ==
    /\ mode = "smart"
    /\ pc \in {"smart_summary", "api_call", "spinner_stop", "join", "error", "build",
               "save", "done"}

\* C13: in the Assisted Strategy, for every configured verbatim count (0, negative and
\* larger than the turn count included), the older prefix followed by the recent
\* suffix is the full turn sequence; summarization is asked for exactly the older
\* turns, exactly the recent turns are rendered verbatim, and the header's
\* 'summarized' and 'verbatim' counts sum to its message count.
C13_SplitPartitions ==
    /\ SplitDone => older_messages \o recent_messages = data.messages
    /\ (SplitDone /\ thread # "none") => request = conversation_text(older_messages)
    /\ (SplitDone /\ handoff_content # << >>) =>
           LET header == handoff_content[1].body
               turns  == handoff_content[VerbatimSection(handoff_content)].body.turns
           IN  /\ header.message_count = Len(data.messages)
               /\ header.summarized = Len(older_messages)
               /\ header.verbatim = Len(turns)
               /\ Len(turns) = Len(recent_messages)
               /\ header.summarized + header.verbatim = header.message_count

\* a smart handoff was saved under a negative count that put turns on both sides
C13_Witness ==
    /\ pc = "done"
    /\ mode = "smart"
    /\ verbatim_count_of(config) < 0
    /\ older_messages # << >>
    /\ recent_messages # << >>
    /\ output_file[1].body.summarized + output_file[1].body.verbatim = Len(data.messages)

\* configured counts of 0, below minus the turn count, and above the turn count
C13_WitnessZero ==
    SplitDone /\ verbatim_count_of(config) = 0 /\ data.messages # << >>

C13_WitnessBelow ==
    SplitDone /\ -verbatim_count_of(config) > Len(data.messages) /\ data.messages # << >>

C13_WitnessAbove ==
    SplitDone /\ verbatim_count_of(config) > Len(data.messages) /\ data.messages # << >>

=============================================================================
